---- MODULE Spec2Model ----
(***************************************************************************)
(* A model of bzlctx (src/main.rs): a single-threaded run that prints the  *)
(* always-include files, resolves the subject file's Bazel package,        *)
(* queries the dependent source files, ranks and filters them and prints   *)
(* them under a global line budget.                                        *)
(*                                                                         *)
(* Strings are sequences of one-character strings, so that splitting,      *)
(* trimming and extension extraction are computed, not assumed.  Option<T> *)
(* is a set with at most one element: {} is None, {x} is Some(x).          *)
(* The file system is fixed for the length of a run (the program is the    *)
(* only actor); a file's content is abstracted to its number of lines.     *)
(***************************************************************************)
EXTENDS Integers, Sequences, FiniteSets, TLC

(***************************************************************************)
(* Bounds of the model.                                                    *)
(***************************************************************************)
MaxLimit == 3
MaxAlways == 2
MaxDeps == 2
MaxOutputLines == 3

\* usize::MAX, the key of a candidate whose distance cannot be computed.
\* The largest integer TLC represents stands for 2^64 - 1: it is only compared.
UsizeMax == 2147483647

(***************************************************************************)
(* Option<T>                                                               *)
(***************************************************************************)
None == {}
Some(x) == {x}
Unwrap(o) == CHOOSE x \in o : TRUE

(***************************************************************************)
(* The paths and query-output lines of the model.                          *)
(***************************************************************************)
SourceFile == <<"p", "/", "a", ".", "r">>
File_b == <<"p", "/", "b", ".", "r">>
File_d == <<"d", ".", "r">>
File_e == <<"p", "/", "e", ".", "m">>
File_R == <<"R">>
\* File_R spelled with a trailing separator: File_R is not a directory, so this
\* names nothing, yet as a PathBuf it equals File_R (same components).
File_Rs == <<"R", "/">>
EmptyPath == <<>>

\* The working directory of the run, as path components.
Cwd == << <<"/">>, <<"w">> >>

LocSuffix == <<":", "1", ":", "1">>

\* Lines a `bazel query --output=location` answer is made of.
DepLines ==
    { File_b \o LocSuffix, File_d \o LocSuffix, File_e \o LocSuffix,
      File_R \o LocSuffix, <<>> }

AlwaysPaths == {File_R, File_b, File_Rs}

FsPaths == {SourceFile, File_b, File_d, File_e, File_R, File_Rs, EmptyPath}

\* The files a run may find missing, and those it may find unreadable.
MissingCandidates == {SourceFile, File_b, File_R}
UnreadableCandidates == {File_b}

\* Line counts of the files of the model (File_d is an empty file).
FileLines(p) ==
    CASE p = SourceFile -> 1
      [] p = File_b -> 1
      [] p = File_d -> 0
      [] p = File_e -> 2
      [] p = File_R -> 1
      [] OTHER -> 0

Present(n) == [exists |-> TRUE, readable |-> TRUE, lines |-> n]
Missing == [exists |-> FALSE, readable |-> FALSE, lines |-> 0]
Unreadable == [exists |-> TRUE, readable |-> FALSE, lines |-> 0]

\* The file systems of the model: every file present, except that the empty
\* path and File_Rs name nothing and at most one file is missing or unreadable.
HealthyFs ==
    [p \in FsPaths |-> IF p \in {EmptyPath, File_Rs} THEN Missing ELSE Present(FileLines(p))]
FileSystems ==
    {HealthyFs} \cup
    { [HealthyFs EXCEPT ![p] = Missing] : p \in MissingCandidates } \cup
    { [HealthyFs EXCEPT ![p] = Unreadable] : p \in UnreadableCandidates }

(***************************************************************************)
(* String helpers: str::split, str::lines, str::trim.                      *)
(***************************************************************************)
RECURSIVE IndexOf(_, _, _)
\* The least index >= i of character ch in s, or 0.
IndexOf(s, ch, i) ==
    IF i > Len(s) THEN 0
    ELSE IF s[i] = ch THEN i
    ELSE IndexOf(s, ch, i + 1)

RECURSIVE LastIndexOf(_, _, _)
\* The greatest index <= i of character ch in s, or 0.
LastIndexOf(s, ch, i) ==
    IF i < 1 THEN 0
    ELSE IF s[i] = ch THEN i
    ELSE LastIndexOf(s, ch, i - 1)

RECURSIVE Split(_, _)
\* str::split(sep): always at least one piece; "" splits into <<"">>.
Split(s, sep) ==
    LET k == IndexOf(s, sep, 1) IN
    IF k = 0 THEN <<s>>
    ELSE <<SubSeq(s, 1, k - 1)>> \o Split(SubSeq(s, k + 1, Len(s)), sep)

IsWhitespace(ch) == ch \in {" ", "\n", "\t", "\r"}

RECURSIVE TrimStart(_)
TrimStart(s) ==
    IF s # <<>> /\ IsWhitespace(Head(s)) THEN TrimStart(Tail(s)) ELSE s

RECURSIVE TrimEnd(_)
TrimEnd(s) ==
    IF s # <<>> /\ IsWhitespace(s[Len(s)]) THEN TrimEnd(SubSeq(s, 1, Len(s) - 1)) ELSE s

\* str::trim
Trim(s) == TrimEnd(TrimStart(s))

StripCr(l) == IF l # <<>> /\ l[Len(l)] = "\r" THEN SubSeq(l, 1, Len(l) - 1) ELSE l

\* str::lines: split at "\n"; a final empty piece is not a line.
StrLines(s) ==
    LET pieces == Split(s, "\n")
        kept == IF pieces[Len(pieces)] = <<>>
                THEN SubSeq(pieces, 1, Len(pieces) - 1) ELSE pieces
    IN [k \in 1..Len(kept) |-> StripCr(kept[k])]

RECURSIVE JoinLines(_)
\* What the engine writes for a sequence of lines: each followed by "\n".
JoinLines(ls) ==
    IF ls = <<>> THEN <<>> ELSE Head(ls) \o <<"\n">> \o JoinLines(Tail(ls))

(***************************************************************************)
(* std::path: components, canonicalize, extension.                         *)
(***************************************************************************)
HasRoot(p) == p # <<>> /\ p[1] = "/"

\* Path::components: empty pieces and non-leading "." pieces vanish; a leading
\* "/" is the root component.
Components(p) ==
    LET parts == Split(p, "/")
        tagged == [k \in 1..Len(parts) |-> <<k, parts[k]>>]
        Kept(e) == e[2] # <<>> /\ (e[2] = <<".">> => e[1] = 1)
        body == SelectSeq(tagged, Kept)
        names == [k \in 1..Len(body) |-> body[k][2]]
    IN IF HasRoot(p) THEN <<<<"/">>>> \o names ELSE names

Exists(file_system, p) == p \in DOMAIN file_system /\ file_system[p].exists

RECURSIVE Resolve(_, _)
\* Resolve "." and ".." components of `rest` on top of the absolute `base`.
Resolve(base, rest) ==
    IF rest = <<>> THEN base
    ELSE IF Head(rest) = <<".">> THEN Resolve(base, Tail(rest))
    ELSE IF Head(rest) = <<".", ".">>
         THEN Resolve(IF Len(base) > 1 THEN SubSeq(base, 1, Len(base) - 1) ELSE base,
                      Tail(rest))
    ELSE Resolve(Append(base, Head(rest)), Tail(rest))

\* Path::canonicalize: None (an error) when the path does not exist, else the
\* absolute components.
canonicalize(file_system, p) ==
    IF ~Exists(file_system, p) THEN None
    ELSE IF HasRoot(p) THEN Some(Resolve(<<<<"/">>>>, Tail(Components(p))))
    ELSE Some(Resolve(Cwd, Components(p)))

RECURSIVE CommonPrefix(_, _)
\* zip(...).take_while(equal).count()
CommonPrefix(a, b) ==
    IF a = <<>> \/ b = <<>> \/ Head(a) # Head(b) THEN 0
    ELSE 1 + CommonPrefix(Tail(a), Tail(b))

\* A distance that counts only the components of the first path.
path_distance_OneSided(file_system, a, b) ==
    LET ca == canonicalize(file_system, a)
        cb == canonicalize(file_system, b)
    IN IF ca = None \/ cb = None THEN None
       ELSE LET common_components == CommonPrefix(Unwrap(ca), Unwrap(cb))
            IN Some(Len(Unwrap(ca)) - common_components)

\* path_distance: None is Err.
path_distance(file_system, a, b) ==
    LET ca == canonicalize(file_system, a)
        cb == canonicalize(file_system, b)
    IN IF ca = None \/ cb = None THEN None
       ELSE LET common_components == CommonPrefix(Unwrap(ca), Unwrap(cb))
            IN Some((Len(Unwrap(ca)) - common_components)
                    + (Len(Unwrap(cb)) - common_components))

\* Path::file_name: the last component when it is a normal one.
FileName(p) ==
    LET cs == Components(p) IN
    IF cs = <<>> THEN None
    ELSE LET last == cs[Len(cs)] IN
         IF last \in {<<"/">>, <<".">>, <<".", ".">>} THEN None ELSE Some(last)

\* get_extension: Path::extension as an Option<String>.
get_extension(p) ==
    IF FileName(p) = None THEN None
    ELSE LET name == Unwrap(FileName(p))
             k == LastIndexOf(name, ".", Len(name))
         IN IF k <= 1 THEN None ELSE Some(SubSeq(name, k + 1, Len(name)))

(***************************************************************************)
(* parse_bazel_output                                                      *)
(***************************************************************************)
\* One PathBuf per line: the piece before the first ":" (split always yields
\* a first piece, so every line contributes an entry).
parse_bazel_output(output) ==
    LET ls == StrLines(output)
    IN [k \in 1..Len(ls) |-> Head(Split(ls[k], ":"))]

(***************************************************************************)
(* The build-graph engine: what one `bazel query` invocation can answer.   *)
(***************************************************************************)
PackageName == <<"p">>
EngineDiag == <<"E", "R", "R">>

\* spawned = FALSE: the process could not be started, awaited or decoded.
SpawnFailure == [spawned |-> FALSE, success |-> FALSE, stdout |-> <<>>, stderr |-> <<>>]
QueryFailure == [spawned |-> TRUE, success |-> FALSE, stdout |-> <<>>, stderr |-> EngineDiag]
QuerySuccess(raw) == [spawned |-> TRUE, success |-> TRUE, stdout |-> raw, stderr |-> <<>>]

RECURSIVE SeqsUpTo(_, _)
\* The sequences over S of length at most n.
SeqsUpTo(S, n) ==
    IF n = 0 THEN {<<>>}
    ELSE LET shorter == SeqsUpTo(S, n - 1)
         IN shorter \cup { Append(q, x) : q \in shorter, x \in S }

PackageResponses == {SpawnFailure, QueryFailure, QuerySuccess(PackageName \o <<"\n">>)}
LocationResponses ==
    {SpawnFailure, QueryFailure} \cup
    { QuerySuccess(JoinLines(ls)) : ls \in SeqsUpTo(DepLines, MaxDeps) }

\* run_command: Err when the process cannot be run; else the trimmed stdout and
\* the status, the engine's stderr being echoed when the status is a failure.
run_command(resp) ==
    [ ok |-> resp.spawned,
      stdout |-> Trim(resp.stdout),
      success |-> resp.success,
      eprint |-> IF resp.spawned /\ ~resp.success
                 THEN <<[kind |-> "CommandStderr", text |-> resp.stderr]>>
                 ELSE <<>> ]

\* find_package and get_dependent_source_files share this shape: the Result of
\* the call (value = the trimmed stdout), and what it wrote to stderr.
QueryResult(resp) ==
    LET r == run_command(resp) IN
    IF ~r.ok
    THEN [ok |-> FALSE, value |-> <<>>, eprint |-> r.eprint,
          error |-> [msg |-> "Failed to execute command", text |-> <<>>]]
    ELSE IF ~r.success
    THEN [ok |-> FALSE, value |-> <<>>, eprint |-> r.eprint,
          error |-> [msg |-> "Bazel query failed", text |-> r.stdout]]
    ELSE [ok |-> TRUE, value |-> r.stdout, eprint |-> r.eprint,
          error |-> [msg |-> "", text |-> <<>>]]

\* find_package without the status test: the output of a failed query is
\* taken for the package.
find_package_IgnoreStatus(resp) ==
    LET r == run_command(resp) IN
    [ok |-> TRUE, value |-> r.stdout, eprint |-> r.eprint,
     error |-> [msg |-> "", text |-> <<>>]]

find_package(resp) == QueryResult(resp)

\* get_dependent_source_files where a failed query degrades to an empty result.
get_dependent_source_files_EmptyOnFailure(resp) ==
    LET r == QueryResult(resp) IN
    [ok |-> TRUE, files |-> IF r.ok THEN parse_bazel_output(r.value) ELSE <<>>,
     eprint |-> r.eprint, error |-> [msg |-> "", text |-> <<>>]]

get_dependent_source_files(resp) ==
    LET r == QueryResult(resp) IN
    [ok |-> r.ok, files |-> IF r.ok THEN parse_bazel_output(r.value) ELSE <<>>,
     eprint |-> r.eprint, error |-> r.error]

(***************************************************************************)
(* print_file_content                                                      *)
(***************************************************************************)
\* print_file_content without the admission test: prints whenever the limit
\* is not yet reached.
print_file_content_NoAdmissionTest(file_system, file_path, line_limit, lines_printed_in) ==
    LET unchanged == [ok |-> TRUE, lines_printed |-> lines_printed_in,
                      printed |-> <<>>, warned |-> <<>>,
                      error |-> [msg |-> "", text |-> <<>>]]
    IN
    IF lines_printed_in >= line_limit THEN unchanged
    ELSE IF ~Exists(file_system, file_path)
    THEN [unchanged EXCEPT !.warned = <<[kind |-> "Warning", text |-> file_path]>>]
    ELSE IF ~file_system[file_path].readable
    THEN [unchanged EXCEPT !.ok = FALSE,
                           !.error = [msg |-> "Failed to read file", text |-> file_path]]
    ELSE [unchanged EXCEPT
            !.printed = <<[path |-> file_path, lines |-> file_system[file_path].lines]>>,
            !.lines_printed = lines_printed_in + file_system[file_path].lines]

\* print_file_content with `>` for `>=`: a file that exactly fills the
\* remaining budget is left out.
print_file_content_StrictFit(file_system, file_path, line_limit, lines_printed_in) ==
    LET unchanged == [ok |-> TRUE, lines_printed |-> lines_printed_in,
                      printed |-> <<>>, warned |-> <<>>,
                      error |-> [msg |-> "", text |-> <<>>]]
    IN
    IF lines_printed_in >= line_limit THEN unchanged
    ELSE IF ~Exists(file_system, file_path)
    THEN [unchanged EXCEPT !.warned = <<[kind |-> "Warning", text |-> file_path]>>]
    ELSE IF ~file_system[file_path].readable
    THEN [unchanged EXCEPT !.ok = FALSE,
                           !.error = [msg |-> "Failed to read file", text |-> file_path]]
    ELSE IF line_limit - lines_printed_in > file_system[file_path].lines
    THEN [unchanged EXCEPT
            !.printed = <<[path |-> file_path, lines |-> file_system[file_path].lines]>>,
            !.lines_printed = lines_printed_in + file_system[file_path].lines]
    ELSE unchanged

\* print_file_content with a missing file treated as an error.
print_file_content_MissingFatal(file_system, file_path, line_limit, lines_printed_in) ==
    LET unchanged == [ok |-> TRUE, lines_printed |-> lines_printed_in,
                      printed |-> <<>>, warned |-> <<>>,
                      error |-> [msg |-> "", text |-> <<>>]]
    IN
    IF lines_printed_in >= line_limit THEN unchanged
    ELSE IF ~Exists(file_system, file_path) \/ ~file_system[file_path].readable
    THEN [unchanged EXCEPT !.ok = FALSE,
                           !.error = [msg |-> "Failed to read file", text |-> file_path]]
    ELSE IF line_limit - lines_printed_in >= file_system[file_path].lines
    THEN [unchanged EXCEPT
            !.printed = <<[path |-> file_path, lines |-> file_system[file_path].lines]>>,
            !.lines_printed = lines_printed_in + file_system[file_path].lines]
    ELSE unchanged

\* The result of one call: ok = FALSE is Err; printed holds the file emitted
\* (header and all of its lines) if any; warned what went to stderr.
print_file_content(file_system, file_path, line_limit, lines_printed_in) ==
    LET unchanged == [ok |-> TRUE, lines_printed |-> lines_printed_in,
                      printed |-> <<>>, warned |-> <<>>,
                      error |-> [msg |-> "", text |-> <<>>]]
    IN
    IF lines_printed_in >= line_limit THEN unchanged
    ELSE IF ~Exists(file_system, file_path)
    THEN [unchanged EXCEPT !.warned = <<[kind |-> "Warning", text |-> file_path]>>]
    ELSE IF ~file_system[file_path].readable
    THEN [unchanged EXCEPT !.ok = FALSE,
                           !.error = [msg |-> "Failed to read file", text |-> file_path]]
    ELSE LET file_lines == file_system[file_path].lines
             remaining_lines == line_limit - lines_printed_in
         IN IF remaining_lines >= file_lines
            THEN [unchanged EXCEPT
                    !.printed = <<[path |-> file_path, lines |-> file_system[file_path].lines]>>,
                    !.lines_printed = lines_printed_in + file_lines]
            ELSE unchanged

(***************************************************************************)
(* Ranking and filtering (main, lines 177-193)                             *)
(***************************************************************************)
\* A sort key that ranks an unresolvable path as the nearest one.
SortKey_DefaultZero(file_system, file) ==
    LET d == path_distance(file_system, SourceFile, file)
    IN IF d = None THEN 0 ELSE Unwrap(d)

\* The sort key: path_distance(..).unwrap_or(usize::MAX).
SortKey(file_system, file) ==
    LET d == path_distance(file_system, SourceFile, file)
    IN IF d = None THEN UsizeMax ELSE Unwrap(d)

RECURSIVE InsertByKey_Unstable(_, _, _)
\* InsertByKey with `<` for `<=`: x goes before the elements of equal key.
InsertByKey_Unstable(file_system, sorted, x) ==
    IF sorted = <<>> THEN <<x>>
    ELSE IF SortKey(file_system, Head(sorted)) < SortKey(file_system, x)
         THEN <<Head(sorted)>> \o InsertByKey_Unstable(file_system, Tail(sorted), x)
         ELSE <<x>> \o sorted

RECURSIVE InsertByKey(_, _, _)
\* Insert x into the sorted seq after every element whose key is <= x's key.
InsertByKey(file_system, sorted, x) ==
    IF sorted = <<>> THEN <<x>>
    ELSE IF SortKey(file_system, Head(sorted)) <= SortKey(file_system, x)
         THEN <<Head(sorted)>> \o InsertByKey(file_system, Tail(sorted), x)
         ELSE <<x>> \o sorted

RECURSIVE SortFrom(_, _, _)
SortFrom(file_system, sorted, rest) ==
    IF rest = <<>> THEN sorted
    ELSE SortFrom(file_system, InsertByKey(file_system, sorted, Head(rest)), Tail(rest))

\* Vec::sort_by_key: a stable sort by SortKey.
sort_by_key(file_system, files) == SortFrom(file_system, <<>>, files)

SeqRange(q) == { q[k] : k \in 1..Len(q) }

\* included_extensions without the insertion of the subject's extension.
included_extensions_NoSubject(include_file_types) ==
    IF include_file_types = None THEN {} ELSE SeqRange(Unwrap(include_file_types))

\* included_extensions: the allow-list, plus the subject's own extension.
included_extensions(include_file_types) ==
    (IF include_file_types = None THEN {} ELSE SeqRange(Unwrap(include_file_types)))
    \cup get_extension(SourceFile)

\* The predicate of dep_files.retain.
Retained(include_file_types, dep_file) ==
    LET dep_file_ext == get_extension(dep_file)
    IN IF dep_file_ext # None
       THEN Unwrap(dep_file_ext) \in included_extensions(include_file_types)
       ELSE FALSE

retain(include_file_types, files) ==
    LET Keep(f) == Retained(include_file_types, f) IN SelectSeq(files, Keep)

(***************************************************************************)
(* The run (main)                                                          *)
(***************************************************************************)
VARIABLES
    args,           \* the parsed command line: limit, include_file_types, always_include
    fs,             \* the file system: path -> [exists, readable, lines]
    pc,             \* the phase of the run
    idx,            \* position of the running for loop in its list
    lines_printed,  \* main's counter
    printed_files,  \* main's HashSet of the paths handed to print_file_content
    package,        \* Option: the resolved package
    dep_files,      \* the query-derived list
    stdout,         \* the files emitted, in order: [path, lines, list]
    stderr,         \* the diagnostics written, in order: [kind, text]
    queries,        \* the engine invocations issued, in order
    err,            \* Option: the error main returned
    call            \* a function called on its own: [fn, input, output, returned]

vars == <<args, fs, pc, idx, lines_printed, printed_files, package, dep_files,
          stdout, stderr, queries, err, call>>

\* No function is called on its own during a run of main.
NoCall == [fn |-> "main", input |-> <<>>, output |-> <<>>, returned |-> FALSE]

Phases == {"AlwaysInclude", "ResolvePackage", "Query", "RankAndFilter", "Emit",
           "Done", "Error"}

AllowLists == {None, Some(<< <<"m">> >>)}
AlwaysLists == {None} \cup { Some(q) : q \in SeqsUpTo(AlwaysPaths, MaxAlways) \ {<<>>} }

Init ==
    /\ args \in [limit : 0..MaxLimit, include_file_types : AllowLists,
                 always_include : AlwaysLists]
    /\ fs \in FileSystems
    /\ pc = "AlwaysInclude"
    /\ idx = 1
    /\ lines_printed = 0
    /\ printed_files = {}
    /\ package = None
    /\ dep_files = <<>>
    /\ stdout = <<>>
    /\ stderr = <<>>
    /\ queries = <<>>
    /\ err = None
    /\ call = NoCall

\* The record of one engine invocation: which query, and how it ended.
Invocation(query, resp) ==
    [query |-> query, spawned |-> resp.spawned, success |-> resp.success]

Tagged(printed, list) ==
    [k \in 1..Len(printed) |->
        [path |-> printed[k].path, lines |-> printed[k].lines, list |-> list]]

\* A PathBuf as a HashSet element: paths are equal, and hash alike, when their
\* components are.
PathKey(file_path) == Components(file_path)

\* A loop that never finds a path in printed_files.
AlreadyPrinted_Never(seen, file_path) == FALSE

\* printed_files.contains(&file_path), lines 163 and 196.
AlreadyPrinted(seen, file_path) == PathKey(file_path) \in seen

\* A loop body that never leaves the loop when the counter reaches the limit.
LoopBody_NoStop(file_system, limit, counter, seen, file_path) ==
    IF AlreadyPrinted(seen, file_path)
    THEN [next |-> "continue", lines_printed |-> counter, printed_files |-> seen,
          printed |-> <<>>, warned |-> <<>>, error |-> [msg |-> "", text |-> <<>>]]
    ELSE LET r == print_file_content(file_system, file_path, limit, counter) IN
         IF ~r.ok
         THEN [next |-> "error", lines_printed |-> counter, printed_files |-> seen,
               printed |-> r.printed, warned |-> r.warned, error |-> r.error]
         ELSE [next |-> "continue",
               lines_printed |-> r.lines_printed,
               printed_files |-> seen \cup {PathKey(file_path)},
               printed |-> r.printed, warned |-> r.warned, error |-> r.error]

\* A loop body that leaves the loop when a file is passed over for its size.
LoopBody_StopOnSkip(file_system, limit, counter, seen, file_path) ==
    IF AlreadyPrinted(seen, file_path)
    THEN [next |-> "continue", lines_printed |-> counter, printed_files |-> seen,
          printed |-> <<>>, warned |-> <<>>, error |-> [msg |-> "", text |-> <<>>]]
    ELSE LET r == print_file_content(file_system, file_path, limit, counter) IN
         IF ~r.ok
         THEN [next |-> "error", lines_printed |-> counter, printed_files |-> seen,
               printed |-> r.printed, warned |-> r.warned, error |-> r.error]
         ELSE [next |-> IF r.lines_printed >= limit
                           \/ (r.printed = <<>> /\ r.warned = <<>>)
                        THEN "full" ELSE "continue",
               lines_printed |-> r.lines_printed,
               printed_files |-> seen \cup {PathKey(file_path)},
               printed |-> r.printed, warned |-> r.warned, error |-> r.error]

\* The body of a `for` loop over files (lines 162-170 and 196-204) as a
\* function of main's counters: skip a path already in printed_files; else
\* call print_file_content, propagate its error, record the path, and leave
\* the loop when the counter has reached the limit.
\* next: "continue" (next file), "full" (return / break), "error" (Err).
LoopBody(file_system, limit, counter, seen, file_path) ==
    IF AlreadyPrinted(seen, file_path)
    THEN [next |-> "continue", lines_printed |-> counter, printed_files |-> seen,
          printed |-> <<>>, warned |-> <<>>, error |-> [msg |-> "", text |-> <<>>]]
    ELSE LET r == print_file_content(file_system, file_path, limit, counter) IN
         IF ~r.ok
         THEN [next |-> "error", lines_printed |-> counter, printed_files |-> seen,
               printed |-> r.printed, warned |-> r.warned, error |-> r.error]
         ELSE [next |-> IF r.lines_printed >= limit THEN "full" ELSE "continue",
               lines_printed |-> r.lines_printed,
               printed_files |-> seen \cup {PathKey(file_path)},
               printed |-> r.printed, warned |-> r.warned, error |-> r.error]

\* An iteration that does not move to the next file of its list.
LoopIteration_NoAdvance(files, list) ==
    \E b \in {LoopBody(fs, args.limit, lines_printed, printed_files, files[idx])} :
    /\ stdout' = stdout \o Tagged(b.printed, list)
    /\ stderr' = stderr \o b.warned
    /\ lines_printed' = b.lines_printed
    /\ printed_files' = b.printed_files
    /\ err' = IF b.next = "error" THEN Some(b.error) ELSE err
    /\ pc' = CASE b.next = "error" -> "Error"
               [] b.next = "full" -> "Done"
               [] OTHER -> pc
    /\ idx' = idx

\* One iteration of the running loop, applied to main's state.
LoopIteration(files, list) ==
    \E b \in {LoopBody(fs, args.limit, lines_printed, printed_files, files[idx])} :
    /\ stdout' = stdout \o Tagged(b.printed, list)
    /\ stderr' = stderr \o b.warned
    /\ lines_printed' = b.lines_printed
    /\ printed_files' = b.printed_files
    /\ err' = IF b.next = "error" THEN Some(b.error) ELSE err
    /\ pc' = CASE b.next = "error" -> "Error"
               [] b.next = "full" -> "Done"
               [] OTHER -> pc
    /\ idx' = IF b.next = "continue" THEN idx + 1 ELSE idx

\* The always-include loop with the extension filter applied to its files.
AlwaysIncludeFile_Filtered ==
    /\ pc = "AlwaysInclude"
    /\ args.always_include # None
    /\ idx <= Len(Unwrap(args.always_include))
    /\ IF Retained(args.include_file_types, Unwrap(args.always_include)[idx])
       THEN LoopIteration(Unwrap(args.always_include), "always")
       ELSE /\ idx' = idx + 1
            /\ UNCHANGED <<pc, lines_printed, printed_files, stdout, stderr, err>>
    /\ UNCHANGED <<call, args, fs, package, dep_files, queries>>

\* The always-include loop without the early return of lines 168-170: when
\* the counter reaches the limit the run goes on to the queries.
AlwaysIncludeFile_NoEarlyReturn ==
    /\ pc = "AlwaysInclude"
    /\ args.always_include # None
    /\ idx <= Len(Unwrap(args.always_include))
    /\ \E b \in {LoopBody(fs, args.limit, lines_printed, printed_files,
                            Unwrap(args.always_include)[idx])} :
       /\ stdout' = stdout \o Tagged(b.printed, "always")
       /\ stderr' = stderr \o b.warned
       /\ lines_printed' = b.lines_printed
       /\ printed_files' = b.printed_files
       /\ err' = IF b.next = "error" THEN Some(b.error) ELSE err
       /\ pc' = CASE b.next = "error" -> "Error"
                  [] b.next = "full" -> "ResolvePackage"
                  [] OTHER -> pc
       /\ idx' = IF b.next = "continue" THEN idx + 1 ELSE idx
    /\ UNCHANGED <<call, args, fs, package, dep_files, queries>>

\* main, lines 160-171: one always-include file.
AlwaysIncludeFile ==
    /\ pc = "AlwaysInclude"
    /\ args.always_include # None
    /\ idx <= Len(Unwrap(args.always_include))
    /\ LoopIteration(Unwrap(args.always_include), "always")
    /\ UNCHANGED <<call, args, fs, package, dep_files, queries>>

\* main, lines 160-172: no always-include list, or the list is exhausted.
AlwaysIncludeEnd ==
    /\ pc = "AlwaysInclude"
    /\ args.always_include # None => idx > Len(Unwrap(args.always_include))
    /\ pc' = "ResolvePackage"
    /\ UNCHANGED <<call, args, fs, idx, lines_printed, printed_files, package,
                   dep_files, stdout, stderr, queries, err>>

\* What the two queries of a run can come to: the invocation as recorded, and
\* the Result the caller gets.
PackageOutcomes ==
    { [call |-> Invocation("package", resp), result |-> find_package(resp)] :
        resp \in PackageResponses }
LocationOutcomes ==
    { [call |-> Invocation("location", resp),
       result |-> get_dependent_source_files(resp)] : resp \in LocationResponses }

\* main, line 174: find_package(&args.source_file)?
ResolvePackage ==
    /\ pc = "ResolvePackage"
    /\ \E o \in PackageOutcomes :
         LET r == o.result IN
         /\ queries' = Append(queries, o.call)
         /\ stderr' = stderr \o r.eprint
         /\ IF r.ok
            THEN /\ package' = Some(r.value)
                 /\ pc' = "Query"
                 /\ err' = err
            ELSE /\ package' = package
                 /\ pc' = "Error"
                 /\ err' = Some(r.error)
    /\ UNCHANGED <<call, args, fs, idx, lines_printed, printed_files,
                   dep_files, stdout>>

\* main, line 175: get_dependent_source_files(&package, ..)?
Query ==
    /\ pc = "Query"
    /\ \E o \in LocationOutcomes :
         LET r == o.result IN
         /\ queries' = Append(queries, o.call)
         /\ stderr' = stderr \o r.eprint
         /\ IF r.ok
            THEN /\ dep_files' = r.files
                 /\ pc' = "RankAndFilter"
                 /\ err' = err
            ELSE /\ dep_files' = dep_files
                 /\ pc' = "Error"
                 /\ err' = Some(r.error)
    /\ UNCHANGED <<call, args, fs, idx, lines_printed, printed_files, package,
                   stdout>>

\* The lists get_dependent_source_files can return.
QueryLists == { o.result.files : o \in { x \in LocationOutcomes : x.result.ok } }

\* main, lines 177-193, on every list a query can return, in every file
\* system and with every allow-list: the list sorted by distance to the
\* subject, then the candidates whose extension is allowed.
Rankings ==
    [f \in FileSystems |-> [t \in AllowLists |-> [l \in QueryLists |->
        retain(t, sort_by_key(f, l))]]]

\* main, lines 177-193: sort by distance to the subject, then keep the
\* candidates whose extension is allowed.
RankAndFilter ==
    /\ pc = "RankAndFilter"
    /\ dep_files' = Rankings[fs][args.include_file_types][dep_files]
    /\ idx' = 1
    /\ pc' = "Emit"
    /\ UNCHANGED <<call, args, fs, lines_printed, printed_files, package,
                   stdout, stderr, queries, err>>

\* main, lines 195-205: one query-derived file; `break` leads to Ok(()).
EmitFile ==
    /\ pc = "Emit"
    /\ idx <= Len(dep_files)
    /\ LoopIteration(dep_files, "query")
    /\ UNCHANGED <<call, args, fs, package, dep_files, queries>>

\* main, lines 195-207: the list is exhausted; Ok(()).
EmitEnd ==
    /\ pc = "Emit"
    /\ idx > Len(dep_files)
    /\ pc' = "Done"
    /\ UNCHANGED <<call, args, fs, idx, lines_printed, printed_files, package,
                   dep_files, stdout, stderr, queries, err>>

Next ==
    \/ AlwaysIncludeFile
    \/ AlwaysIncludeEnd
    \/ ResolvePackage
    \/ Query
    \/ RankAndFilter
    \/ EmitFile
    \/ EmitEnd

Spec == Init /\ [][Next]_vars

\* main is one sequential thread: as long as the calls it makes return (the
\* engine's wait_with_output, fs::read_to_string), its next statement runs.
FairSpec == Spec /\ WF_vars(Next)

(***************************************************************************)
(* path_distance and parse_bazel_output called on their own                *)
(***************************************************************************)
\* Lines of an engine's answer: those of DepLines, and one with nothing
\* before its first colon.
OutputLines == DepLines \cup { <<":", "1">> }

\* What get_dependent_source_files hands to parse_bazel_output (line 125): the
\* standard output as run_command trimmed it (line 54).
RawOutputs == { Trim(JoinLines(ls)) : ls \in SeqsUpTo(OutputLines, MaxOutputLines) }

Calls ==
    { [fn |-> "path_distance", input |-> <<a, b>>, output |-> <<>>,
       returned |-> FALSE] : a \in FsPaths, b \in FsPaths }
    \cup
    { [fn |-> "parse_bazel_output", input |-> raw, output |-> <<>>,
       returned |-> FALSE] : raw \in RawOutputs }

\* A function is about to be called in some file system; main is not running.
PureInit ==
    /\ call \in Calls
    /\ fs \in FileSystems
    /\ args = [limit |-> 0, include_file_types |-> None, always_include |-> None]
    /\ pc = "Done"
    /\ idx = 1
    /\ lines_printed = 0
    /\ printed_files = {}
    /\ package = None
    /\ dep_files = <<>>
    /\ stdout = <<>>
    /\ stderr = <<>>
    /\ queries = <<>>
    /\ err = None

\* path_distance(a, b), lines 129-143.
PathDistanceCall ==
    /\ call.fn = "path_distance"
    /\ ~call.returned
    /\ call' = [call EXCEPT
                  !.output = path_distance(fs, call.input[1], call.input[2]),
                  !.returned = TRUE]
    /\ UNCHANGED <<args, fs, pc, idx, lines_printed, printed_files, package,
                   dep_files, stdout, stderr, queries, err>>

\* parse_bazel_output(output), lines 58-67.
ParseBazelOutputCall ==
    /\ call.fn = "parse_bazel_output"
    /\ ~call.returned
    /\ call' = [call EXCEPT !.output = parse_bazel_output(call.input),
                            !.returned = TRUE]
    /\ UNCHANGED <<args, fs, pc, idx, lines_printed, printed_files, package,
                   dep_files, stdout, stderr, queries, err>>

PureNext ==
    \/ PathDistanceCall
    \/ ParseBazelOutputCall

PureSpec == PureInit /\ [][PureNext]_vars

(***************************************************************************)
(* Vocabulary of the properties                                            *)
(***************************************************************************)
RECURSIVE EmittedLines(_)
\* The number of content lines of the files in an output.
EmittedLines(out) ==
    IF out = <<>> THEN 0 ELSE Head(out).lines + EmittedLines(Tail(out))

IsAlways(e) == e.list = "always"
IsQuery(e) == e.list = "query"
AlwaysPart(out) == SelectSeq(out, IsAlways)
QueryPart(out) == SelectSeq(out, IsQuery)
PathsOf(out) == [k \in 1..Len(out) |-> out[k].path]

RECURSIVE IsSubseq(_, _)
\* a is obtained from b by deleting elements.
IsSubseq(a, b) ==
    IF a = <<>> THEN TRUE
    ELSE IF b = <<>> THEN FALSE
    ELSE IF Head(a) = Head(b) THEN IsSubseq(Tail(a), Tail(b))
    ELSE IsSubseq(a, Tail(b))

AlwaysList == IF args.always_include = None THEN <<>> ELSE Unwrap(args.always_include)

\* The list the running loop walks, and the file it is about to consider.
CurrentList ==
    CASE pc = "AlwaysInclude" -> AlwaysList
      [] pc = "Emit" -> dep_files
      [] OTHER -> <<>>
Considering == idx <= Len(CurrentList)
CurrentFile == CurrentList[idx]
CurrentTag == IF pc = "AlwaysInclude" THEN "always" ELSE "query"

\* The loop is about to hand a path it has not seen to print_file_content.
Examining == Considering /\ Components(CurrentFile) \notin printed_files

Readable(f) == Exists(fs, f) /\ fs[f].readable

Emitted(f) == \E k \in 1..Len(stdout) : stdout[k].path = f
Warned(f) == \E k \in 1..Len(stderr) : stderr[k] = [kind |-> "Warning", text |-> f]

ResolutionFailed == Len(queries) >= 1 /\ ~(queries[1].spawned /\ queries[1].success)

(***************************************************************************)
(* C1  Budget invariant: in every reachable state the number of lines      *)
(* emitted across all files, always-include and query-derived together,    *)
(* is at most the configured limit.                                        *)
(***************************************************************************)
C1_BudgetInvariant == EmittedLines(stdout) <= args.limit

\* Files of both lists were emitted and fill the budget exactly.
C1_Witness ==
    /\ AlwaysPart(stdout) # <<>>
    /\ QueryPart(stdout) # <<>>
    /\ EmittedLines(stdout) = args.limit

(***************************************************************************)
(* C2  All-or-nothing admission: when a readable file not yet seen is      *)
(* examined below the limit, it is emitted in full, the counter growing by *)
(* its line count, if and only if limit - lines_printed >= its line count; *)
(* otherwise nothing is emitted and the counter is unchanged.              *)
(***************************************************************************)
C2_AllOrNothing ==
    [][ (Examining /\ lines_printed < args.limit /\ Readable(CurrentFile)) =>
        LET n == fs[CurrentFile].lines IN
        IF args.limit - lines_printed >= n
        THEN /\ stdout' = Append(stdout, [path |-> CurrentFile, lines |-> n,
                                          list |-> CurrentTag])
             /\ lines_printed' = lines_printed + n
        ELSE /\ stdout' = stdout
             /\ lines_printed' = lines_printed ]_vars

\* A file one line longer than what remained was left out, and a later file
\* then filled the budget exactly.
C2_Witness ==
    /\ pc = "Done"
    /\ args.limit > 0
    /\ lines_printed = args.limit
    /\ Len(stdout) = 1
    /\ \E f \in FsPaths :
         /\ Components(f) \in printed_files
         /\ Readable(f)
         /\ ~Emitted(f)
         /\ fs[f].lines = stdout[Len(stdout)].lines + 1

(***************************************************************************)
(* C3  Global deduplication: no file path is emitted twice in the output,  *)
(* whether it recurs in the always-include list, in the query result, or   *)
(* in both.                                                                *)
(***************************************************************************)
C3_NoPathTwice ==
    \A i, j \in 1..Len(stdout) : stdout[i].path = stdout[j].path => i = j

\* A path given twice on the command line and returned by the query was
\* emitted, and the run went through the query-derived list.
C3_Witness ==
    /\ pc = "Done"
    /\ \E f \in FsPaths :
         /\ AlwaysList = <<f, f>>
         /\ \E k \in 1..Len(dep_files) : dep_files[k] = f
         /\ Emitted(f)

(***************************************************************************)
(* C4  Ranked order: ranking leaves the candidates in non-decreasing       *)
(* distance to the subject, candidates of equal distance keeping the order *)
(* of the query result, and filtering does not reorder them; the           *)
(* query-derived files are emitted in the order of the ranked list.        *)
(***************************************************************************)
C4_Ranked(raw, ranked) ==
    /\ \A k \in 1..Len(ranked) - 1 : SortKey(fs, ranked[k]) <= SortKey(fs, ranked[k + 1])
    /\ SeqRange(ranked) \subseteq SeqRange(raw)
    /\ \A d \in { SortKey(fs, raw[k]) : k \in 1..Len(raw) } :
         LET AtD(f) == SortKey(fs, f) = d
             KeptAtD(f) == SortKey(fs, f) = d /\ Retained(args.include_file_types, f)
         IN SelectSeq(ranked, AtD) = SelectSeq(raw, KeptAtD)

C4_RankedOrder ==
    /\ [][ pc = "RankAndFilter" => C4_Ranked(dep_files, dep_files') ]_vars
    /\ [](pc \in {"Emit", "Done", "Error"} =>
            IsSubseq(PathsOf(QueryPart(stdout)), dep_files))

\* Two candidates at the same distance were emitted in the order of the
\* query result, which is not the order of their names.
C4_Witness ==
    /\ pc = "Done"
    /\ PathsOf(QueryPart(stdout)) = <<File_e, File_b>>
    /\ SortKey(fs, File_e) = SortKey(fs, File_b)

(***************************************************************************)
(* C5  Orchestrator ordering.  As stated: no file content is emitted       *)
(* before the subject file's package has been resolved, and when package   *)
(* resolution fails no file is emitted and the run ends in Error.          *)
(***************************************************************************)
C5_AsStated ==
    /\ stdout # <<>> => package # None
    /\ ResolutionFailed => (stdout = <<>> /\ pc = "Error")

C5_Successors(p) ==
    CASE p = "AlwaysInclude" -> {"AlwaysInclude", "ResolvePackage", "Done", "Error"}
      [] p = "ResolvePackage" -> {"Query", "Error"}
      [] p = "Query" -> {"RankAndFilter", "Error"}
      [] p = "RankAndFilter" -> {"Emit"}
      [] p = "Emit" -> {"Emit", "Done", "Error"}
      [] OTHER -> {}

(***************************************************************************)
(* C5, amended: a run passes through its phases in the order               *)
(* AlwaysInclude, ResolvePackage, Query, RankAndFilter, Emit, Done, with   *)
(* Done and Error final; always-include files are emitted only in          *)
(* AlwaysInclude, before the package is resolved, and query-derived files  *)
(* only in Emit, after it; when package resolution fails the run ends in   *)
(* Error at once: no further query, no query-derived file, and nothing     *)
(* emitted after the failure.                                              *)
(***************************************************************************)
C5_PhaseOrder ==
    /\ [][ /\ pc' \in C5_Successors(pc)
           /\ AlwaysPart(stdout') # AlwaysPart(stdout) => (pc = "AlwaysInclude" /\ package = None)
           /\ QueryPart(stdout') # QueryPart(stdout) => (pc = "Emit" /\ package # None)
           /\ (pc = "ResolvePackage" /\ ResolutionFailed') =>
                (pc' = "Error" /\ stdout' = stdout) ]_vars
    /\ [](ResolutionFailed =>
            (pc = "Error" /\ Len(queries) = 1 /\ QueryPart(stdout) = <<>>))

\* Always-include files were emitted, then package resolution failed.
C5_Witness ==
    /\ ResolutionFailed
    /\ pc = "Error"
    /\ AlwaysPart(stdout) # <<>>

(***************************************************************************)
(* C6  A candidate file that exists but cannot be read is skipped: the     *)
(* counter and the output are unchanged, the run does not end in Error     *)
(* and the loop goes on to the remaining candidates.                       *)
(***************************************************************************)
C6_AsStated ==
    [][ (Examining /\ lines_printed < args.limit
         /\ Exists(fs, CurrentFile) /\ ~fs[CurrentFile].readable) =>
        (/\ pc' # "Error"
         /\ lines_printed' = lines_printed
         /\ stdout' = stdout
         /\ idx' = idx + 1) ]_vars

(***************************************************************************)
(* C7  Missing file.  As stated: every examined candidate path that does   *)
(* not exist produces a warning, emits nothing, leaves the counter         *)
(* unchanged and does not stop the run, and the files emitted are exactly  *)
(* those emitted had the missing paths been absent from the lists.         *)
(***************************************************************************)
C7_MissingStep ==
    /\ stderr' = Append(stderr, [kind |-> "Warning", text |-> CurrentFile])
    /\ stdout' = stdout
    /\ lines_printed' = lines_printed
    /\ pc' = pc
    /\ idx' = idx + 1

RECURSIVE RunLoop(_, _, _, _)
\* A whole loop over `files` from the given counters: the counters it ends
\* with and the files it emits.
RunLoop(files, counter, seen, out) ==
    IF files = <<>>
    THEN [next |-> "continue", lines_printed |-> counter, printed_files |-> seen,
          out |-> out]
    ELSE LET b == LoopBody(fs, args.limit, counter, seen, Head(files)) IN
         IF b.next # "continue"
         THEN [next |-> b.next, lines_printed |-> b.lines_printed,
               printed_files |-> b.printed_files, out |-> out \o b.printed]
         ELSE RunLoop(Tail(files), b.lines_printed, b.printed_files, out \o b.printed)

ExistsInFs(f) == Exists(fs, f)
WithoutMissing(files) == SelectSeq(files, ExistsInFs)

\* What the run emits had the missing paths been absent from both lists.
C7_SameAsWithoutMissing ==
    LET a == RunLoop(WithoutMissing(AlwaysList), 0, {}, <<>>)
        q == RunLoop(WithoutMissing(dep_files), a.lines_printed, a.printed_files, <<>>)
    IN /\ pc # "AlwaysInclude" =>
            PathsOf(AlwaysPart(stdout)) = PathsOf(a.out)
       /\ (pc \in {"Done", "Error"} /\ Len(queries) = 2 /\ queries[2].success) =>
            PathsOf(QueryPart(stdout)) = PathsOf(q.out)

C7_Shadowed(all, k) ==
    LET first == CHOOSE j \in 1..k :
                    /\ Components(all[j]) = Components(all[k])
                    /\ \A i \in 1..(j - 1) : Components(all[i]) # Components(all[k])
    IN ~Exists(fs, all[first])

RECURSIVE C7_Unshadowed(_, _, _)
\* The entries of `all` from position k on, in order, that are not shadowed.
C7_Unshadowed(all, k, from) ==
    IF k > Len(all) THEN <<>>
    ELSE (IF k >= from /\ ~C7_Shadowed(all, k) THEN <<all[k]>> ELSE <<>>)
         \o C7_Unshadowed(all, k + 1, from)

\* What the run emits had the missing paths, and the later candidates equal
\* to them as paths, been absent from both lists.
C7_SameAsWithoutShadowed ==
    LET a == RunLoop(C7_Unshadowed(AlwaysList, 1, 1), 0, {}, <<>>)
        q == RunLoop(C7_Unshadowed(AlwaysList \o dep_files, 1, Len(AlwaysList) + 1),
                     a.lines_printed, a.printed_files, <<>>)
    IN /\ pc # "AlwaysInclude" =>
            PathsOf(AlwaysPart(stdout)) = PathsOf(a.out)
       /\ (pc \in {"Done", "Error"} /\ Len(queries) = 2 /\ queries[2].success) =>
            PathsOf(QueryPart(stdout)) = PathsOf(q.out)

C8_QueryFailureFatal ==
    /\ Len(queries) <= 2
    /\ \A k \in 1..Len(queries) :
         /\ queries[k].query = (IF k = 1 THEN "package" ELSE "location")
         /\ (queries[k].spawned /\ ~queries[k].success) =>
              (pc = "Error" /\ k = Len(queries) /\ QueryPart(stdout) = <<>>)

\* The dependency query returned a non-success status.
C8_Witness ==
    /\ Len(queries) = 2
    /\ queries[2].spawned
    /\ ~queries[2].success
    /\ pc = "Error"

(***************************************************************************)
(* C9  Always-include override: in the output every always-include file    *)
(* precedes every query-derived file, the always-include files appear in   *)
(* command-line order, and an always-include file that is readable and     *)
(* fits is emitted whatever its extension.                                 *)
(***************************************************************************)
C9_AlwaysIncludeFirst ==
    /\ [](/\ \A i, j \in 1..Len(stdout) :
               (i < j /\ IsQuery(stdout[i])) => IsQuery(stdout[j])
          /\ IsSubseq(PathsOf(AlwaysPart(stdout)), AlwaysList))
    /\ [][ (pc = "AlwaysInclude" /\ Examining /\ Readable(CurrentFile)
            /\ args.limit - lines_printed >= fs[CurrentFile].lines
            /\ lines_printed < args.limit) =>
           stdout' = Append(stdout, [path |-> CurrentFile,
                                     lines |-> fs[CurrentFile].lines,
                                     list |-> "always"]) ]_vars

\* A file without extension, given after another always-include file, was
\* emitted second and before a query-derived file, under an allow-list.
C9_Witness ==
    /\ Len(stdout) = 3
    /\ PathsOf(AlwaysPart(stdout)) = <<File_b, File_R>>
    /\ IsQuery(stdout[3])
    /\ get_extension(File_R) = None

(***************************************************************************)
(* C10  Extension filtering: after filtering, a candidate of the query     *)
(* result is kept exactly when it has an extension that is in the explicit *)
(* allow-list or equals the subject file's extension; every query-derived  *)
(* file emitted is such a candidate.                                       *)
(***************************************************************************)
C10_AllowList ==
    IF args.include_file_types = None THEN {} ELSE SeqRange(Unwrap(args.include_file_types))

C10_Eligible(f) ==
    /\ get_extension(f) # None
    /\ \/ Unwrap(get_extension(f)) \in C10_AllowList
       \/ get_extension(f) = get_extension(SourceFile)

C10_ExtensionFilter ==
    /\ [][ pc = "RankAndFilter" =>
           \A f \in SeqRange(dep_files) :
              (f \in SeqRange(dep_files')) <=> C10_Eligible(f) ]_vars
    /\ [](\A k \in 1..Len(stdout) : IsQuery(stdout[k]) => C10_Eligible(stdout[k].path))

\* Under an allow-list that omits the subject's extension, a candidate with
\* the subject's extension and one with a listed extension were emitted.
C10_Witness ==
    /\ args.include_file_types = Some(<< <<"m">> >>)
    /\ get_extension(SourceFile) = Some(<<"r">>)
    /\ PathsOf(QueryPart(stdout)) = <<File_e, File_b>>


(***************************************************************************)
(* C11  Stop on exhaustion, as stated: once the running total equals or    *)
(* exceeds the limit the run ends in Done, so no run whose total has       *)
(* reached the limit ends in Error.                                        *)
(***************************************************************************)
C11_AsStated == lines_printed >= args.limit => pc # "Error"

\* The candidate diagnostics written so far.
IsWarning(e) == e.kind = "Warning"
Warnings == SelectSeq(stderr, IsWarning)

(***************************************************************************)
(* C11  Stop on exhaustion, amended: a step that brings the running total  *)
(* to the limit ends the run in Done at that step; a loop that meets a     *)
(* candidate while the total is at the limit ends in Done without emitting *)
(* it or writing a diagnostic for it; once the total is at the limit no    *)
(* file is emitted and no candidate diagnostic is written any more.  With  *)
(* a positive limit the run is in Done whenever the total is at the limit; *)
(* with limit 0 and no always-include list the queries are still issued    *)
(* and the run ends in Error exactly when one of them fails.               *)
(***************************************************************************)
C11_StopOnExhaustion ==
    [][ /\ (lines_printed < args.limit /\ lines_printed' >= args.limit) => pc' = "Done"
        /\ (lines_printed >= args.limit /\ Considering) => pc' = "Done"
        /\ lines_printed >= args.limit =>
              /\ stdout' = stdout
              /\ lines_printed' = lines_printed
              /\ SelectSeq(stderr', IsWarning) = Warnings
        /\ (lines_printed >= args.limit /\ args.limit > 0) => pc = "Done"
        /\ (lines_printed' >= args.limit /\ pc' = "Error") =>
              /\ args.limit = 0
              /\ AlwaysList = <<>>
              /\ pc \in {"ResolvePackage", "Query"}
              /\ ~(queries'[Len(queries')].spawned /\ queries'[Len(queries')].success)
      ]_vars

\* The first always-include file filled the budget and the run ended with a
\* second file of the list never considered and no query issued.
C11_Witness ==
    /\ pc = "Done"
    /\ args.limit > 0
    /\ lines_printed >= args.limit
    /\ Len(AlwaysList) = 2
    /\ idx = 1
    /\ Len(stdout) = 1
    /\ queries = <<>>


\* The distance of a candidate to the subject file cannot be computed.
Unresolvable(f) == path_distance(fs, f, SourceFile) = None

(***************************************************************************)
(* C13  Unresolvable paths get a sentinel distance: ranking never aborts   *)
(* the run; it leads to emission with no error, keeps every candidate the  *)
(* extension filter allows, the unresolvable ones included, and orders     *)
(* each unresolvable candidate after every candidate whose distance could  *)
(* be computed.                                                            *)
(***************************************************************************)
C13_SentinelDistance ==
    [][ pc = "RankAndFilter" =>
          /\ pc' = "Emit"
          /\ err' = None
          /\ \A f \in SeqRange(dep_files) :
                Retained(args.include_file_types, f) => f \in SeqRange(dep_files')
          /\ \A i, j \in 1..Len(dep_files') :
                (i < j /\ Unresolvable(dep_files'[i])) => Unresolvable(dep_files'[j])
      ]_vars

\* A missing candidate was ranked after a farther one that resolves, the
\* run went on to emission, emitted the resolvable one and warned about the
\* missing one.
C13_Witness ==
    /\ pc = "Done"
    /\ dep_files = <<File_d, File_b>>
    /\ Unresolvable(File_b)
    /\ ~Unresolvable(File_d)
    /\ Emitted(File_d)
    /\ Warned(File_b)


\* sub occurs in s as a contiguous run.
IsInfix(sub, s) ==
    \E k \in 0..(Len(s) - Len(sub)) : SubSeq(s, k + 1, k + Len(sub)) = sub

(***************************************************************************)
(* C15  Failed queries carry the engine's diagnostics, as stated: when a   *)
(* query ends with a non-success status, the "Bazel query failed" message  *)
(* returned to the caller includes the engine's diagnostic (stderr)        *)
(* output.                                                                 *)
(***************************************************************************)
C15_AsStated ==
    \A e \in err :
        (e.msg = "Bazel query failed" /\ ~queries[Len(queries)].success)
            => IsInfix(EngineDiag, e.text)


\* Every candidate of the run, in the order the two loops walk them.
Candidates == AlwaysList \o dep_files

\* Candidate k is, character for character, a path walked before it.
Repeated(k) == \E j \in 1..(k - 1) : Candidates[j] = Candidates[k]

Duplicate(k) == \E j \in 1..(k - 1) : PathKey(Candidates[j]) = PathKey(Candidates[k])

\* The run is over with budget left, and every candidate that exists, is
\* readable, is the first of its PathBuf and was not emitted has more lines
\* than the budget that is left.
C17_OnlyOversizedLeft ==
    (pc = "Done" /\ lines_printed < args.limit) =>
        \A k \in 1..Len(Candidates) :
            (Readable(Candidates[k]) /\ ~Duplicate(k) /\ ~Emitted(Candidates[k]))
                => fs[Candidates[k]].lines > args.limit - lines_printed

C18_EarlySuccess ==
    [][ /\ (pc = "AlwaysInclude" /\ Considering /\ lines_printed' >= args.limit) =>
              /\ pc' = "Done"
              /\ err' = None
              /\ queries' = <<>>
        /\ (pc' = "Done" /\ queries' = <<>>) =>
              /\ AlwaysList # <<>>
              /\ lines_printed' >= args.limit
        /\ AlwaysList = <<>> =>
              /\ pc = "AlwaysInclude" => pc' = "ResolvePackage"
              /\ pc' = "Done" =>
                    /\ Len(queries') = 2
                    /\ queries'[1].query = "package"
                    /\ queries'[2].query = "location"
              /\ pc' = "Error" =>
                    /\ Len(queries') >= 1
                    /\ queries'[1].query = "package"
                    /\ Len(queries') = 1 =>
                          ~(queries'[1].spawned /\ queries'[1].success)
      ]_vars

\* With limit 0 and a non-empty always-include list the run is over at its
\* first file: nothing emitted, no diagnostic, no query, no error.
C18_Witness ==
    /\ pc = "Done"
    /\ args.limit = 0
    /\ AlwaysList # <<>>
    /\ queries = <<>>
    /\ stdout = <<>>
    /\ stderr = <<>>
    /\ err = None


\* The position of a phase in the run.
PhaseRank(p) ==
    CASE p = "AlwaysInclude" -> 1
      [] p = "ResolvePackage" -> 2
      [] p = "Query" -> 3
      [] p = "RankAndFilter" -> 4
      [] p = "Emit" -> 5
      [] OTHER -> 6

Terminated == pc \in {"Done", "Error"}

(***************************************************************************)
(* C16  Termination: every engine call and file read returning, every run  *)
(* eventually reaches Done or Error and takes no step from there, so it    *)
(* ends in exactly one of the two; Done carries no error and Error carries *)
(* one.  On the way no phase is entered                                    *)
(* twice, and a loop that stays in its phase has considered the entry at   *)
(* its position and moves to the next position, so each always-include     *)
(* entry and each query-derived candidate is considered at most once.      *)
(***************************************************************************)
C16_Termination ==
    /\ <>Terminated
    /\ [][ /\ ~Terminated
           /\ pc' = "Done" => err' = None
           /\ pc' = "Error" => err' # None
           /\ pc' # pc => PhaseRank(pc') > PhaseRank(pc)
           /\ pc' = pc =>
                 /\ pc \in {"AlwaysInclude", "Emit"}
                 /\ Considering
                 /\ idx' = idx + 1
                 /\ UNCHANGED <<call, args, fs, package, dep_files, queries>>
         ]_vars

\* A run that walked two lists of two entries to their ends, one entry
\* after the other, and ended in Done.
C16_Witness ==
    /\ pc = "Done"
    /\ err = None
    /\ Len(AlwaysList) = 2
    /\ Len(dep_files) = 2
    /\ Len(queries) = 2
    /\ idx = 3
    /\ lines_printed < args.limit


\* path_distance has returned.
DistanceReturned == call.fn = "path_distance" /\ call.returned

(***************************************************************************)
(* C12  Distance is symmetric and zero on identity, as stated: for all     *)
(* paths a and b, distance(a, b) = distance(b, a), and distance(a, a) = 0. *)
(***************************************************************************)
C12_AsStated ==
    DistanceReturned =>
        LET a == call.input[1]
            b == call.input[2]
        IN /\ call.output = path_distance(fs, b, a)
           /\ a = b => call.output = Some(0)

\* The absolute form of a relative path with no "." or ".." component.
Absolute(p) == Cwd \o Components(p)

(***************************************************************************)
(* C12  Distance is symmetric and zero on identity, amended: for all paths *)
(* a and b, distance(a, b) and distance(b, a) are the same result.  When   *)
(* both paths exist the result is (len(a) - c) + (len(b) - c), for the     *)
(* absolute forms of a and b and the number c of their shared leading      *)
(* components, and it is 0 when a = b; when one of them does not exist     *)
(* the result is an error, in both orders, also when a = b.                *)
(***************************************************************************)
C12_SymmetricDistance ==
    DistanceReturned =>
        LET a == call.input[1]
            b == call.input[2]
            c == CommonPrefix(Absolute(a), Absolute(b))
        IN /\ call.output = path_distance(fs, b, a)
           /\ IF Exists(fs, a) /\ Exists(fs, b)
              THEN /\ call.output =
                        Some((Len(Absolute(a)) - c) + (Len(Absolute(b)) - c))
                   /\ a = b => call.output = Some(0)
              ELSE call.output = None

\* The distance between p/a.r and d.r, both existing: two components of the
\* one and one of the other lie below the shared directory.
C12_Witness ==
    /\ DistanceReturned
    /\ call.input = <<SourceFile, File_d>>
    /\ Exists(fs, SourceFile)
    /\ call.output = Some(3)

\* parse_bazel_output has returned.
ParseReturned == call.fn = "parse_bazel_output" /\ call.returned

\* The part of a line before its first colon, the whole line if it has none.
BeforeFirstColon(line) ==
    LET k == IndexOf(line, ":", 1)
    IN IF k = 0 THEN line ELSE SubSeq(line, 1, k - 1)

NonEmpty(s) == s # <<>>

(***************************************************************************)
(* C14  Location-output parsing, as stated: the result holds, in the order *)
(* of the lines, the part of each line before its first colon, the lines   *)
(* that name no file path (an empty line, a line that starts with a colon) *)
(* being discarded and contributing no entry.                              *)
(***************************************************************************)
C14_AsStated ==
    ParseReturned =>
        LET ls == StrLines(call.input)
            paths == [k \in 1..Len(ls) |-> BeforeFirstColon(ls[k])]
        IN call.output = SelectSeq(paths, NonEmpty)

====
